---- MODULE Spec2Model ----
(***************************************************************************)
(* Model of generate.py: the CSV-to-grade-mapping extractor, the per-      *)
(* question script emitter, and the browser script it emits (JS_TEMPLATE). *)
(*                                                                         *)
(* Strings are sequences of characters, so that strip(), int() and the     *)
(* header regular expression are computed rather than assumed.  A header   *)
(* is a sequence of lexical tokens: the literals "Question " and           *)
(* " Response", single characters, and names of other columns.             *)
(***************************************************************************)
EXTENDS Integers, Sequences, FiniteSets, TLC

\* ------------------------------------------------------------------ bounds
MaxCellLen == 3     \* longest response cell drawn for compute_grades
MaxCols    == 2     \* most response columns of a row drawn for compute_grades
MaxHeaders == 3     \* longest header row drawn for parse_questions
MaxRows    == 2     \* most metadata rows of a metadata file
MaxLoads   == 3     \* most /next_ungraded responses in one browser session
NumParts   == 2     \* the num_parts a written script is instantiated with

\* ------------------------------------------------------- program constants
MinGrade == 0       \* lower end of "0 <= v <= 4"
MaxGrade == 4       \* upper end of "0 <= v <= 4"

\* --------------------------------------------------------------- variables
VARIABLES
    pc,                 \* position of main(), or of the harness of a pure function
    scores,             \* rows of the scores CSV (csv.DictReader)
    headers,            \* reader.fieldnames of the metadata CSV
    rows,               \* list(reader) of the metadata CSV
    sid_to_submission,  \* dict SID -> Submission ID
    questions,          \* parse_questions(headers)
    todo,               \* question numbers still to be handled, ascending
    ri,                 \* number of metadata rows handled for the current question
    grades,             \* the current question's mapping submission -> vector
    done,               \* per handled question: its final mapping
    files,              \* per written q<N>.js: the mapping and num_parts it holds
    ret,                \* return value of the pure function under test
    location,           \* window.location.href: the submission the page shows
    href,               \* the poll loop's recorded location
    pendingGrade,       \* grade info stored by the XHR load listener, or null
    processing,         \* the poll loop's "an application is running" flag
    runs,               \* applyGrade executions suspended at an await
    loads,              \* number of /next_ungraded responses so far
    applied,            \* per recorded pending grade: times it was applied
    completed,          \* submissions for which an applyGrade has completed
    lastClick           \* the page as it was at the latest nextBtn.click()

pyVars == <<pc, scores, headers, rows, sid_to_submission, questions, todo, ri,
            grades, done, files, ret>>
jsVars == <<location, href, pendingGrade, processing, runs, loads, applied,
            completed, lastClick>>
vars == <<pyVars, jsVars>>

\* ------------------------------------------------------- strings and None
None == <<"<None>">>            \* Python None where a string may stand
WS == {" "}                     \* whitespace characters
Digits == {"0", "1", "2", "3", "4", "5", "6", "7", "8", "9"}

DigitVal(c) ==
    CASE c = "0" -> 0 [] c = "1" -> 1 [] c = "2" -> 2 [] c = "3" -> 3
      [] c = "4" -> 4 [] c = "5" -> 5 [] c = "6" -> 6 [] c = "7" -> 7
      [] c = "8" -> 8 [] c = "9" -> 9

DigitChar(n) ==
    CASE n = 0 -> "0" [] n = 1 -> "1" [] n = 2 -> "2" [] n = 3 -> "3"
      [] n = 4 -> "4" [] n = 5 -> "5" [] n = 6 -> "6" [] n = 7 -> "7"
      [] n = 8 -> "8" [] n = 9 -> "9"

\* x or ""
OrEmpty(x) == IF x = None THEN <<>> ELSE x

RECURSIVE LStrip(_)
LStrip(s) == IF s # <<>> /\ Head(s) \in WS THEN LStrip(Tail(s)) ELSE s

RECURSIVE RStrip(_)
RStrip(s) ==
    IF s # <<>> /\ s[Len(s)] \in WS THEN RStrip(SubSeq(s, 1, Len(s) - 1)) ELSE s

\* str.strip()
Strip(s) == RStrip(LStrip(s))

\* value of a run of decimal digits, underscores skipped
RECURSIVE DigitsValue(_, _)
DigitsValue(s, acc) ==
    IF s = <<>> THEN acc
    ELSE IF Head(s) = "_" THEN DigitsValue(Tail(s), acc)
    ELSE DigitsValue(Tail(s), 10 * acc + DigitVal(Head(s)))

\* the body of an integer literal: digits, single underscores between them
IsDigitBody(s) ==
    /\ s # <<>>
    /\ \A i \in 1..Len(s) : s[i] \in Digits \cup {"_"}
    /\ s[1] \in Digits
    /\ s[Len(s)] \in Digits
    /\ \A i \in 1..(Len(s) - 1) : ~(s[i] = "_" /\ s[i + 1] = "_")

ValueError == [ok |-> FALSE, v |-> 0]

\* int(val): whitespace stripped, optional sign, decimal body; else ValueError
ParseInt(val) ==
    LET t == Strip(val)
        signed == t # <<>> /\ t[1] \in {"+", "-"}
        body == IF signed THEN Tail(t) ELSE t
    IN  IF ~IsDigitBody(body) THEN ValueError
        ELSE [ok |-> TRUE,
              v  |-> IF signed /\ t[1] = "-" THEN 0 - DigitsValue(body, 0)
                     ELSE DigitsValue(body, 0)]

\* ------------------------------------------------------------ compute_grades
NoGrades == [none |-> TRUE, vec |-> <<>>]      \* the return value None

\* CellGrade with the range test "v <= 4" only
CellGrade_noLowerBound(cell) ==
    LET val == Strip(OrEmpty(cell))
        p == ParseInt(val)
    IN  IF val = <<>> THEN [slot |-> 0, any |-> FALSE]
        ELSE IF p.ok
             THEN IF p.v <= MaxGrade
                  THEN [slot |-> p.v, any |-> TRUE]
                  ELSE [slot |-> 0, any |-> FALSE]
             ELSE [slot |-> 0, any |-> FALSE]

\* the value one column appends to result, and whether it sets has_any
CellGrade(cell) ==
    LET val == Strip(OrEmpty(cell))
        p == ParseInt(val)
    IN  IF val = <<>> THEN [slot |-> 0, any |-> FALSE]
        ELSE IF p.ok
             THEN IF MinGrade <= p.v /\ p.v <= MaxGrade
                  THEN [slot |-> p.v, any |-> TRUE]
                  ELSE [slot |-> 0, any |-> FALSE]
             ELSE [slot |-> 0, any |-> FALSE]

\* GradeLoop whose blank branch continues without appending
RECURSIVE GradeLoop_skipBlank(_, _, _, _)
GradeLoop_skipBlank(row, cols, result, has_any) ==
    IF cols = <<>> THEN [result |-> result, has_any |-> has_any]
    ELSE LET g == CellGrade(row[Head(cols)])
         IN  IF Strip(OrEmpty(row[Head(cols)])) = <<>>
             THEN GradeLoop_skipBlank(row, Tail(cols), result, has_any)
             ELSE GradeLoop_skipBlank(row, Tail(cols), Append(result, g.slot),
                                      has_any \/ g.any)

RECURSIVE GradeLoop(_, _, _, _)
GradeLoop(row, cols, result, has_any) ==
    IF cols = <<>> THEN [result |-> result, has_any |-> has_any]
    ELSE LET g == CellGrade(row[Head(cols)])
         IN  GradeLoop(row, Tail(cols), Append(result, g.slot), has_any \/ g.any)

compute_grades(row, response_columns) ==
    LET r == GradeLoop(row, response_columns, <<>>, FALSE)
    IN  IF r.has_any THEN [none |-> FALSE, vec |-> r.result] ELSE NoGrades

\* ----------------------------------------------------------- parse_questions
QuestionTok == "Question "
ResponseTok == " Response"

\* length of the longest run of digits that starts s
RECURSIVE DigitRun(_)
DigitRun(s) ==
    IF s # <<>> /\ Head(s) \in Digits THEN 1 + DigitRun(Tail(s)) ELSE 0

Drop(s, n) == SubSeq(s, n + 1, Len(s))

\* pattern.match(h) for ^Question (\d+)(?:\.(\d+))? Response$ ; "$" matches at
\* the end of the string and also just before a newline that ends the string
Match(h) ==
    IF h = <<>> \/ Head(h) # QuestionTok THEN [ok |-> FALSE, g1 |-> <<>>]
    ELSE
      LET a  == Tail(h)
          n1 == DigitRun(a)
          b  == Drop(a, n1)
          dotted == /\ Len(b) >= 2
                    /\ b[1] = "."
                    /\ DigitRun(Tail(b)) >= 1
          c  == IF dotted THEN Drop(Tail(b), DigitRun(Tail(b))) ELSE b
          atEnd == c = <<ResponseTok>> \/ c = <<ResponseTok, "\n">>
      IN  IF n1 >= 1 /\ atEnd
          THEN [ok |-> TRUE, g1 |-> SubSeq(a, 1, n1)]
          ELSE [ok |-> FALSE, g1 |-> <<>>]

\* questions[main_q].append(h) on a defaultdict(list)
AppendTo(qs, k, h) ==
    IF k \in DOMAIN qs THEN [qs EXCEPT ![k] = Append(@, h)]
    ELSE [x \in DOMAIN qs \cup {k} |-> IF x = k THEN <<h>> ELSE qs[x]]

RECURSIVE HeaderLoop(_, _)
HeaderLoop(hs, qs) ==
    IF hs = <<>> THEN qs
    ELSE LET m == Match(Head(hs))
         IN  IF m.ok
             THEN HeaderLoop(Tail(hs), AppendTo(qs, DigitsValue(m.g1, 0), Head(hs)))
             ELSE HeaderLoop(Tail(hs), qs)

EmptyDict == [x \in {} |-> <<>>]

parse_questions(hs) == HeaderLoop(hs, EmptyDict)

\* ------------------------------------------------------------------ inputs
Range(f) == {f[x] : x \in DOMAIN f}

SeqsUpTo(S, n) == UNION {[1..k -> S] : k \in 0..n}

StudentIDHdr == <<"Student ID">>
NameHdr == <<"Name">>
Q(n) == <<QuestionTok, DigitChar(n), ResponseTok>>
QP(n, m) == <<QuestionTok, DigitChar(n), ".", DigitChar(m), ResponseTok>>

s1 == <<"s", "1">>
s2 == <<"s", "2">>
subA == <<"a">>
subB == <<"b">>

\* scores files: a plain roster, two students sharing one submission (with
\* padded fields), rows lacking a field around a repeated SID, an empty roster
ScoresFiles ==
    { << [SID |-> s1, SubmissionID |-> subA], [SID |-> s2, SubmissionID |-> subB] >>,
      << [SID |-> <<" ">> \o s1, SubmissionID |-> subA \o <<" ">>],
         [SID |-> s2, SubmissionID |-> subA] >>,
      << [SID |-> s1, SubmissionID |-> subA], [SID |-> None, SubmissionID |-> subB],
         [SID |-> s2, SubmissionID |-> <<" ">>], [SID |-> s1, SubmissionID |-> subB] >>,
      << >> }

\* header rows of the metadata file: one question of two parts, two questions
\* of one part each listed out of order, no question at all
HeaderRows ==
    { <<NameHdr, StudentIDHdr, QP(1, 1), QP(1, 2)>>,
      <<NameHdr, StudentIDHdr, Q(2), Q(1)>>,
      <<NameHdr, StudentIDHdr>> }

MetaSids == {s1, s2 \o <<" ">>}
MainCells == {<<>>, <<"0">>, <<"3">>, <<"x">>}

ResponseHdrs(hs) == {h \in Range(hs) : Match(h).ok}

\* a row that ends after its first field: DictReader fills the rest with None
ShortRow(hs) == [h \in Range(hs) |-> IF h = hs[1] THEN <<>> ELSE None]

MetaRows(hs) ==
    { [h \in Range(hs) |-> IF h = StudentIDHdr THEN sid
                           ELSE IF h \in DOMAIN c THEN c[h] ELSE <<>>] :
        sid \in MetaSids, c \in [ResponseHdrs(hs) -> MainCells] }
    \cup {ShortRow(hs)}

\* ---------------------------------------------------------------- main()
RECURSIVE SortedSeq(_)
SortedSeq(S) ==
    IF S = {} THEN <<>>
    ELSE LET m == CHOOSE x \in S : \A y \in S : x <= y
         IN  <<m>> \o SortedSeq(S \ {m})

\* dict[k] = v
Put(d, k, v) == [x \in DOMAIN d \cup {k} |-> IF x = k THEN v ELSE d[x]]

\* the loop that builds sid_to_submission from the scores rows
RECURSIVE ScoresLoop(_, _)
ScoresLoop(rs, d) ==
    IF rs = <<>> THEN d
    ELSE LET sid == Strip(OrEmpty(Head(rs).SID))
             sub_id == Strip(OrEmpty(Head(rs).SubmissionID))
         IN  IF sid # <<>> /\ sub_id # <<>>
             THEN ScoresLoop(Tail(rs), Put(d, sid, sub_id))
             ELSE ScoresLoop(Tail(rs), d)

Zeros(n) == [i \in 1..n |-> 0]

\* {sub_id: [0] * num_parts for sub_id in sid_to_submission.values()}
DefaultGrades(lookup, num_parts) == [s \in Range(lookup) |-> Zeros(num_parts)]

\* AnyPositive with "g >= 0"
AnyPositive_nonNegative(g) == \E s \in DOMAIN g : \E i \in DOMAIN g[s] : g[s][i] >= 0

\* any(any(g > 0 for g in arr) for arr in grades.values())
AnyPositive(g) == \E s \in DOMAIN g : \E i \in DOMAIN g[s] : g[s][i] > 0

\* RowEffect that overwrites only an entry that is still all zeros
RowEffect_firstWins(g, row, lookup, response_cols) ==
    LET sid == Strip(row[StudentIDHdr])
    IN  IF sid \notin DOMAIN lookup THEN g
        ELSE LET part_grades == compute_grades(row, response_cols)
             IN  IF ~part_grades.none /\ g[lookup[sid]] = Zeros(Len(response_cols))
                 THEN Put(g, lookup[sid], part_grades.vec)
                 ELSE g

\* RowEffect without the "is not None" test: the row's result always lands
RowEffect_alwaysOverwrite(g, row, lookup, response_cols) ==
    LET sid == Strip(row[StudentIDHdr])
    IN  IF sid \notin DOMAIN lookup THEN g
        ELSE Put(g, lookup[sid], GradeLoop(row, response_cols, <<>>, FALSE).result)

\* RowEffect with sid_to_submission.get(sid, sid) in place of the skip
RowEffect_noSkip(g, row, lookup, response_cols) ==
    LET sid == Strip(row[StudentIDHdr])
        submission_id == IF sid \in DOMAIN lookup THEN lookup[sid] ELSE sid
        part_grades == compute_grades(row, response_cols)
    IN  IF ~part_grades.none THEN Put(g, submission_id, part_grades.vec) ELSE g

\* the body of "for row in rows": the mapping after one row
RowEffect(g, row, lookup, response_cols) ==
    LET sid == Strip(row[StudentIDHdr])
    IN  IF sid \notin DOMAIN lookup THEN g
        ELSE LET part_grades == compute_grades(row, response_cols)
             IN  IF ~part_grades.none
                 THEN Put(g, lookup[sid], part_grades.vec)
                 ELSE g

PyIdle ==
    /\ location = "-" /\ href = "-" /\ pendingGrade = "-" /\ processing = FALSE
    /\ runs = {} /\ loads = 0 /\ applied = <<>> /\ completed = {}
    /\ lastClick = "-"

Init ==
    /\ pc = "start"
    /\ scores \in ScoresFiles
    /\ headers \in HeaderRows
    /\ rows \in SeqsUpTo(MetaRows(headers), MaxRows)
    /\ sid_to_submission = EmptyDict
    /\ questions = EmptyDict
    /\ todo = <<>>
    /\ ri = 0
    /\ grades = EmptyDict
    /\ done = EmptyDict
    /\ files = EmptyDict
    /\ ret = "-"
    /\ PyIdle

\* lines 143-150: read the scores CSV into the lookup
BuildLookup ==
    /\ pc = "start"
    /\ sid_to_submission' = ScoresLoop(scores, EmptyDict)
    /\ pc' = "discover"
    /\ UNCHANGED <<scores, headers, rows, questions, todo, ri, grades, done,
                   files, ret, jsVars>>

\* lines 159-164: discover the questions, to be handled in ascending order
Discover ==
    /\ pc = "discover"
    /\ questions' = parse_questions(headers)
    /\ todo' = SortedSeq(DOMAIN questions')
    /\ pc' = "question"
    /\ UNCHANGED <<scores, headers, rows, sid_to_submission, ri, grades, done,
                   files, ret, jsVars>>

\* lines 164-169: next question, every known submission at all zeros
StartQuestion ==
    /\ pc = "question"
    /\ todo # <<>>
    /\ grades' = DefaultGrades(sid_to_submission, Len(questions[Head(todo)]))
    /\ ri' = 0
    /\ pc' = "rows"
    /\ UNCHANGED <<scores, headers, rows, sid_to_submission, questions, todo,
                   done, files, ret, jsVars>>

\* lines 171-178: one metadata row; None.strip() raises AttributeError
RowStep ==
    /\ pc = "rows"
    /\ ri < Len(rows)
    /\ LET row == rows[ri + 1]
       IN  IF row[StudentIDHdr] = None
           THEN /\ pc' = "error"
                /\ UNCHANGED <<ri, grades>>
           ELSE /\ grades' = RowEffect(grades, row, sid_to_submission,
                                       questions[Head(todo)])
                /\ ri' = ri + 1
                /\ pc' = pc
    /\ UNCHANGED <<scores, headers, rows, sid_to_submission, questions, todo,
                   done, files, ret, jsVars>>

\* lines 180-194: skip the question or write q<N>.js
Emit ==
    /\ pc = "rows"
    /\ ri = Len(rows)
    /\ LET q_num == Head(todo)
       IN  /\ done' = Put(done, q_num, grades)
           /\ files' = IF ~AnyPositive(grades) THEN files
                       ELSE Put(files, q_num,
                                [grades |-> grades,
                                 num_parts |-> Len(questions[q_num])])
    /\ todo' = Tail(todo)
    /\ pc' = "question"
    /\ UNCHANGED <<scores, headers, rows, sid_to_submission, questions, ri,
                   grades, ret, jsVars>>

\* the loop over the questions is over: main() returns
Finish ==
    /\ pc = "question"
    /\ todo = <<>>
    /\ pc' = "exit"
    /\ UNCHANGED <<scores, headers, rows, sid_to_submission, questions, todo,
                   ri, grades, done, files, ret, jsVars>>

Next == BuildLookup \/ Discover \/ StartQuestion \/ RowStep \/ Emit \/ Finish

Spec == Init /\ [][Next]_vars

\* ============================================================ properties
\* What a cell says, stated on its characters: padding, an optional sign,
\* zeros (single underscores allowed between digits), then the digit of v.
Denotes(cell, v) ==
    /\ cell # None
    /\ \E a \in 1..Len(cell), b \in 1..Len(cell) :
         /\ a <= b
         /\ \A i \in 1..(a - 1) : cell[i] \in WS
         /\ \A i \in (b + 1)..Len(cell) : cell[i] \in WS
         /\ cell[a] \notin WS
         /\ cell[b] \notin WS
         /\ LET p == IF cell[a] \in {"+", "-"} THEN a + 1 ELSE a
            IN  /\ p <= b
                /\ cell[a] = "-" => v = 0
                /\ cell[p] \in Digits
                /\ cell[b] = DigitChar(v)
                /\ \A k \in p..(b - 1) : cell[k] \in {"0", "_"}
                /\ \A k \in p..(b - 1) : ~(cell[k] = "_" /\ cell[k + 1] = "_")

ValidGrades == MinGrade..MaxGrade

IsValidCell(cell) == \E v \in ValidGrades : Denotes(cell, v)

SlotOf(cell) ==
    IF IsValidCell(cell) THEN CHOOSE v \in ValidGrades : Denotes(cell, v) ELSE 0

RowVector(row, cols) == [i \in 1..Len(cols) |-> SlotOf(row[cols[i]])]

AllBlankOrInvalid(row, cols) == \A i \in 1..Len(cols) : ~IsValidCell(row[cols[i]])

HasStudentID(row) == row[StudentIDHdr] # None

\* the roster links the student id of the row to a submission
RosterLinks(row, sub) ==
    \E k \in 1..Len(scores) :
        /\ scores[k].SID # None /\ scores[k].SubmissionID # None
        /\ Strip(scores[k].SID) = Strip(row[StudentIDHdr])
        /\ Strip(scores[k].SID) # <<>>
        /\ Strip(scores[k].SubmissionID) # <<>>
        /\ Strip(scores[k].SubmissionID) = sub
        /\ \A j \in (k + 1)..Len(scores) :
               ~(/\ scores[j].SID # None /\ scores[j].SubmissionID # None
                 /\ Strip(scores[j].SID) = Strip(scores[k].SID)
                 /\ Strip(scores[j].SubmissionID) # <<>>)

Submissions == {Strip(scores[k].SubmissionID) :
                  k \in {j \in 1..Len(scores) : scores[j].SubmissionID # None}}

HasUnknownStudent(row) ==
    HasStudentID(row) /\ \A sub \in Submissions : ~RosterLinks(row, sub)

RowPending == pc = "rows" /\ ri < Len(rows)

SetMax(S) == CHOOSE x \in S : \A y \in S : y <= x

\* C2 as stated: when several rows carry one Student ID of the roster, the
\* final vector of that student's submission is the vector of the last of
\* these rows, whatever the rows hold.
C2_LastDuplicateWins ==
    pc = "exit" =>
      \A q \in DOMAIN done : \A sub \in DOMAIN done[q] :
        \A k \in 1..Len(rows) :
          LET same == {j \in 1..Len(rows) :
                         /\ HasStudentID(rows[j])
                         /\ Strip(rows[j][StudentIDHdr]) = Strip(rows[k][StudentIDHdr])}
          IN  (RosterLinks(rows[k], sub) /\ Cardinality(same) >= 2)
                => done[q][sub] = RowVector(rows[SetMax(same)], questions[q])

\* C2 amended: the final vector of a submission is the vector of the last
\* row, in file order, whose Student ID the roster links to that submission
\* and that holds at least one cell that is an integer in [0,4]; it is all
\* zeros when there is no such row.
C2_LastGradedRowWins ==
    pc = "exit" =>
      \A q \in DOMAIN done : \A sub \in DOMAIN done[q] :
        LET graded == {j \in 1..Len(rows) :
                         /\ RosterLinks(rows[j], sub)
                         /\ ~AllBlankOrInvalid(rows[j], questions[q])}
        IN  done[q][sub] = IF graded = {} THEN Zeros(Len(questions[q]))
                           ELSE RowVector(rows[SetMax(graded)], questions[q])

\* a finished run in which a submission's last row is blank or invalid and an
\* earlier row of the same student was graded
C2_Witness ==
    /\ pc = "exit"
    /\ \E q \in DOMAIN done : \E sub \in DOMAIN done[q] :
         \E j, k \in 1..Len(rows) :
           /\ j < k
           /\ k = Len(rows)
           /\ RosterLinks(rows[j], sub) /\ RosterLinks(rows[k], sub)
           /\ Strip(rows[j][StudentIDHdr]) = Strip(rows[k][StudentIDHdr])
           /\ ~AllBlankOrInvalid(rows[j], questions[q])
           /\ AllBlankOrInvalid(rows[k], questions[q])
           /\ done[q][sub] # Zeros(Len(questions[q]))

\* C3: a row whose response cells for the question are all blank or invalid
\* leaves the question's mapping exactly as it was before the row.
C3_BlankRowKeepsEntry ==
    [][ (RowPending /\ AllBlankOrInvalid(rows[ri + 1], questions[Head(todo)]))
          => grades' = grades ]_vars

\* a blank or invalid row of a known student has been handled and the entry
\* it would have overwritten still holds an earlier row's grades
C3_Witness ==
    /\ pc = "rows"
    /\ ri >= 2
    /\ AllBlankOrInvalid(rows[ri], questions[Head(todo)])
    /\ \E sub \in DOMAIN grades :
         /\ RosterLinks(rows[ri], sub)
         /\ grades[sub] # Zeros(Len(questions[Head(todo)]))

VectorsOK(g, n) ==
    \A sub \in DOMAIN g :
        /\ DOMAIN g[sub] = 1..n
        /\ \A i \in 1..n : g[sub][i] \in ValidGrades

\* C4: throughout the extraction loop and in every written file, each vector
\* of a question's mapping has exactly num_parts entries, all in [0,4].
C4_VectorShape ==
    /\ pc = "rows" => VectorsOK(grades, Len(questions[Head(todo)]))
    /\ \A q \in DOMAIN done : VectorsOK(done[q], Len(questions[q]))
    /\ \A q \in DOMAIN files :
         /\ files[q].num_parts = Len(questions[q])
         /\ VectorsOK(files[q].grades, Len(questions[q]))

\* a file is written and, in the loop of a later question, a row has put a
\* vector with a blank part into the mapping
C4_Witness ==
    /\ pc = "rows"
    /\ ri >= 1
    /\ \E sub \in DOMAIN grades : \E i, j \in DOMAIN grades[sub] :
         grades[sub][i] > 0 /\ grades[sub][j] = 0
    /\ RowVector(rows[ri], questions[Head(todo)]) \in Range(grades)

\* C5: q<N>.js is written exactly for the questions whose final mapping has
\* an entry greater than zero; every discovered question is decided.
C5_FileIffPositive ==
    /\ \A q \in DOMAIN done :
         q \in DOMAIN files <=>
           \E sub \in DOMAIN done[q] : \E i \in DOMAIN done[q][sub] :
               done[q][sub][i] > 0
    /\ DOMAIN files \subseteq DOMAIN done
    /\ pc = "exit" => DOMAIN done = DOMAIN questions

\* a finished run that wrote one question and skipped another whose mapping
\* has submissions but only zeros
C5_Witness ==
    /\ pc = "exit"
    /\ \E q1, q2 \in DOMAIN done :
         /\ q1 \in DOMAIN files
         /\ q2 \notin DOMAIN files
         /\ DOMAIN done[q2] # {}
         /\ \E k \in 1..Len(rows) : ~AllBlankOrInvalid(rows[k], questions[q2])

CGChars == {" ", "+", "-", "_", "0", "4", "5"}
CGCells == {None} \cup SeqsUpTo(CGChars, MaxCellLen)
CGSide == {<<>>, <<"0">>, <<"4">>, <<"5">>, <<"x">>}
CGCols(n) == [i \in 1..n |-> QP(1, i)]

\* a row over n columns: cell k is c, the others are as side says
CGRow(n, k, c, side) ==
    [h \in Range(CGCols(n)) |-> IF h = CGCols(n)[k] THEN c ELSE side[h]]

InitCG ==
    /\ pc = "cg"
    /\ \E n \in 1..MaxCols :
         /\ headers = CGCols(n)
         /\ \E k \in 1..n, c \in CGCells :
              \E side \in [Range(CGCols(n)) \ {CGCols(n)[k]} -> CGSide] :
                 rows = <<CGRow(n, k, c, side)>>
    /\ scores = <<>>
    /\ sid_to_submission = EmptyDict
    /\ questions = EmptyDict
    /\ todo = <<>>
    /\ ri = 0
    /\ grades = EmptyDict
    /\ done = EmptyDict
    /\ files = EmptyDict
    /\ ret = "-"
    /\ PyIdle

\* compute_grades(row, response_columns) is called; ret keeps the locals the
\* loop ends with and the value returned
CGApply ==
    /\ pc = "cg"
    /\ LET r == GradeLoop(rows[1], headers, <<>>, FALSE)
       IN  ret' = [result |-> r.result, has_any |-> r.has_any,
                   value |-> compute_grades(rows[1], headers)]
    /\ pc' = "cg_done"
    /\ UNCHANGED <<scores, headers, rows, sid_to_submission, questions, todo,
                   ri, grades, done, files, jsVars>>

NextCG == CGApply

SpecCG == InitCG /\ [][NextCG]_vars

CGCell(i) == rows[1][headers[i]]

\* C1 as stated: a vector is returned exactly when some column holds an
\* integer 1..4; otherwise (a row whose only valid cells are "0" included)
\* None is returned, never an all-zero vector.
C1_VectorIffPositive ==
    pc = "cg_done" =>
      /\ ~ret.value.none <=>
           \E i \in 1..Len(headers) : \E v \in 1..MaxGrade : Denotes(CGCell(i), v)
      /\ ~ret.value.none => ret.value.vec # Zeros(Len(headers))

\* C6: every slot of the vector is v when the cell is a valid v in [0,4] and
\* 0 for any other cell; the call always ends with a slot per column.
C6_SlotPerCell ==
    pc = "cg_done" =>
      /\ DOMAIN ret.result = 1..Len(headers)
      /\ \A i \in 1..Len(headers) :
           /\ \A v \in ValidGrades : Denotes(CGCell(i), v) => ret.result[i] = v
           /\ ~IsValidCell(CGCell(i)) => ret.result[i] = 0
      /\ ret.value = NoGrades \/ ret.value = [none |-> FALSE, vec |-> ret.result]

\* a returned vector with a padded or signed valid cell next to a cell that
\* is a number out of range
C6_Witness ==
    /\ pc = "cg_done"
    /\ ~ret.value.none
    /\ \E i, j \in 1..Len(headers) :
         /\ Len(CGCell(i)) >= 2 /\ ret.value.vec[i] > 0
         /\ CGCell(j) # None /\ ParseInt(CGCell(j)).ok /\ ~IsValidCell(CGCell(j))
         /\ ret.value.vec[j] = 0

\* ================================================ parse_questions on its own
HeaderPool ==
    { Q(1), Q(2), QP(1, 1), QP(1, 2), QP(2, 1),
      <<QuestionTok, "1", "2", ResponseTok>>,
      <<QuestionTok, "0", "1", ResponseTok>>,
      <<QuestionTok, "1", ".", ResponseTok>>,
      <<QuestionTok, ".", "1", ResponseTok>>,
      <<QuestionTok, "1", ".", "1", ".", "1", ResponseTok>>,
      <<QuestionTok, "x", ResponseTok>>,
      <<QuestionTok, "1">>,
      Q(1) \o <<"\n">>,
      Q(1) \o <<" ">>,
      <<" ">> \o Q(1),
      StudentIDHdr }

InitPQ ==
    /\ pc = "pq"
    /\ headers \in SeqsUpTo(HeaderPool, MaxHeaders)
    /\ rows = <<>>
    /\ scores = <<>>
    /\ sid_to_submission = EmptyDict
    /\ questions = EmptyDict
    /\ todo = <<>>
    /\ ri = 0
    /\ grades = EmptyDict
    /\ done = EmptyDict
    /\ files = EmptyDict
    /\ ret = "-"
    /\ PyIdle

\* parse_questions(headers) is called
PQApply ==
    /\ pc = "pq"
    /\ ret' = parse_questions(headers)
    /\ pc' = "pq_done"
    /\ UNCHANGED <<scores, headers, rows, sid_to_submission, questions, todo,
                   ri, grades, done, files, jsVars>>

NextPQ == PQApply

SpecPQ == InitPQ /\ [][NextPQ]_vars

IsDigits(s) == s # <<>> /\ \A i \in 1..Len(s) : s[i] \in Digits

\* h reads "Question <N> Response" or "Question <N>.<M> Response"
FitsPattern(h) ==
    /\ Len(h) >= 3
    /\ h[1] = QuestionTok
    /\ h[Len(h)] = ResponseTok
    /\ LET mid == SubSeq(h, 2, Len(h) - 1)
       IN  \/ IsDigits(mid)
           \/ \E d \in 1..Len(mid) :
                /\ mid[d] = "."
                /\ IsDigits(SubSeq(mid, 1, d - 1))
                /\ IsDigits(SubSeq(mid, d + 1, Len(mid)))

\* the N of a header that fits the pattern
LeadingInt(h) ==
    LET mid == SubSeq(h, 2, Len(h) - 1)
        dots == {d \in 1..Len(mid) : mid[d] = "."}
    IN  IF dots = {} THEN DigitsValue(mid, 0)
        ELSE DigitsValue(SubSeq(mid, 1, SetMax(dots) - 1), 0)

\* C7 as stated: the keys are exactly the leading integers of the headers
\* that fit the pattern, each list holds exactly those headers in header-row
\* order, and a header that does not fit the pattern is in no list.
C7_GroupsByLeadingInt ==
    pc = "pq_done" =>
      /\ DOMAIN ret = {LeadingInt(h) : h \in {x \in Range(headers) : FitsPattern(x)}}
      /\ \A k \in DOMAIN ret :
           LET InGroup(h) == FitsPattern(h) /\ LeadingInt(h) = k
           IN  ret[k] = SelectSeq(headers, InGroup)

\* ===================================================== the emitted script
\* The page is the environment: /next_ungraded responses load, and the
\* location changes, whenever the page or its user makes them.  A location
\* is named by the submission it shows.
PageSubs == {"p0", "p1", "p2"}

\* const grades = {...}: the literal written in front of the template
JSGrades == [s \in {"p1"} |-> [i \in 1..NumParts |-> IF i = 1 THEN 3 ELSE 0]]

DEFAULT_GRADES == [i \in 1..NumParts |-> 0]

\* grades.hasOwnProperty(id) ? grades[id] : DEFAULT_GRADES
GradeFor(id) == IF id \in DOMAIN JSGrades THEN JSGrades[id] ELSE DEFAULT_GRADES

Null == [grade |-> <<>>, submissionId |-> "null", rec |-> 0]
NoClick == [shown |-> "none", completed |-> {}]

PyOff ==
    /\ pc = "js"
    /\ scores = <<>> /\ headers = <<>> /\ rows = <<>>
    /\ sid_to_submission = EmptyDict /\ questions = EmptyDict
    /\ todo = <<>> /\ ri = 0
    /\ grades = EmptyDict /\ done = EmptyDict /\ files = EmptyDict
    /\ ret = "-"

\* applyGrade runs to its first await, or to its end when there is no group:
\* n = Math.min(groups.length, gradesArray.length).  at = "expanded" is the
\* 100 ms wait after groupKey.click(), at = "clicked" the 50 ms wait after
\* the rubric item of group i was clicked.
FirstAwait(kind, grade, id, n, expand) ==
    [kind |-> kind, grade |-> grade, submissionId |-> id, n |-> n,
     i |-> IF expand THEN 0 ELSE 1,
     at |-> IF expand THEN "expanded" ELSE "clicked"]

\* lines 69-94 have run: the poll loop is installed and the first submission,
\* taken from the react props, is being applied
InitJS ==
    /\ PyOff
    /\ location = "p0"
    /\ href = "p0"
    /\ pendingGrade = Null
    /\ processing = FALSE
    /\ loads = 0
    /\ applied = <<>>
    /\ \E n \in 0..NumParts, expand \in BOOLEAN :
         IF n = 0
         THEN /\ runs = {}
              /\ completed = {"p0"}
              /\ lastClick = [shown |-> "p0", completed |-> {"p0"}]
         ELSE /\ runs = {FirstAwait("first", GradeFor("p0"), "p0", n, expand)}
              /\ completed = {}
              /\ lastClick = NoClick

\* lines 54-59: the load listener of a /next_ungraded request stores the grade
XHRLoad(id) ==
    /\ loads < MaxLoads
    /\ loads' = loads + 1
    /\ applied' = Append(applied, 0)
    /\ pendingGrade' = [grade |-> GradeFor(id), submissionId |-> id, rec |-> loads + 1]
    /\ UNCHANGED <<location, href, processing, runs, completed, lastClick, pyVars>>

\* lines 60-62: the response does not parse; the listener only logs
XHRLoadBad ==
    /\ loads < MaxLoads
    /\ loads' = loads + 1
    /\ applied' = Append(applied, 0)
    /\ UNCHANGED <<location, href, pendingGrade, processing, runs, completed,
                   lastClick, pyVars>>

\* the page shows another submission
LocationChange(id) ==
    /\ id # location
    /\ location' = id
    /\ UNCHANGED <<href, pendingGrade, processing, runs, loads, applied,
                   completed, lastClick, pyVars>>

\* lines 72-83: a 50 ms tick whose test passes
PollTick ==
    /\ href # location
    /\ pendingGrade # Null
    /\ ~processing
    /\ href' = location
    /\ pendingGrade' = Null
    /\ applied' = [applied EXCEPT ![pendingGrade.rec] = @ + 1]
    /\ \E n \in 0..NumParts, expand \in BOOLEAN :
         IF n = 0
         THEN /\ runs' = runs
              /\ processing' = FALSE
              /\ completed' = completed \cup {pendingGrade.submissionId}
              /\ lastClick' = [shown |-> location, completed |-> completed']
         ELSE /\ runs' = runs \cup {FirstAwait("poll", pendingGrade.grade,
                                               pendingGrade.submissionId, n, expand)}
              /\ processing' = TRUE
              /\ UNCHANGED <<completed, lastClick>>
    /\ UNCHANGED <<location, loads, pyVars>>

\* lines 17-37, 78-81, 91-93: a timer resumes an applyGrade; after the last
\* group the promise resolves and its then-callback clicks nextBtn
Resume(r) ==
    /\ r \in runs
    /\ IF r.at = "expanded"
       THEN /\ runs' = (runs \ {r}) \cup {[r EXCEPT !.i = r.i + 1, !.at = "clicked"]}
            /\ UNCHANGED <<processing, completed, lastClick>>
       ELSE IF r.i < r.n
       THEN /\ \E expand \in BOOLEAN :
                 runs' = (runs \ {r}) \cup
                         {[r EXCEPT !.i = IF expand THEN r.i ELSE r.i + 1,
                                    !.at = IF expand THEN "expanded" ELSE "clicked"]}
            /\ UNCHANGED <<processing, completed, lastClick>>
       ELSE /\ runs' = runs \ {r}
            /\ processing' = IF r.kind = "poll" THEN FALSE ELSE processing
            /\ completed' = completed \cup {r.submissionId}
            /\ lastClick' = [shown |-> location, completed |-> completed']
    /\ UNCHANGED <<location, href, pendingGrade, loads, applied, pyVars>>

NextJS ==
    \/ \E id \in PageSubs : XHRLoad(id)
    \/ XHRLoadBad
    \/ \E id \in PageSubs : LocationChange(id)
    \/ PollTick
    \/ \E r \in runs : Resume(r)

SpecJS == InitJS /\ [][NextJS]_vars

\* C9 as stated: at every nextBtn.click() an applyGrade for the submission
\* then displayed has completed; the poll loop starts an application only
\* when the location differs from the recorded one; a recorded pending grade
\* is applied at most once.
C9_ClickAfterApply ==
    /\ [](lastClick # NoClick => lastClick.shown \in lastClick.completed)
    /\ [][ (Len(applied') = Len(applied) /\ applied' # applied)
             => (href # location /\ href' = location) ]_vars
    /\ [](\A k \in 1..Len(applied) : applied[k] <= 1)

\* C10 as stated: at most one applyGrade is in progress at any time, the
\* application for the first submission included.
C10_OneApplyAtATime == Cardinality(runs) <= 1

====
